---- MODULE Spec2Model ----
(***************************************************************************)
(* next-result: a discriminated-union Result value with producers (Ok,     *)
(* Err), type guards (isOk, isErr), optional extractors (optionOk,         *)
(* optionErr) and unwrap functions, synchronous and asynchronous.          *)
(*                                                                         *)
(* JavaScript values are records [type, repr]; objects are records whose   *)
(* domain is the set of own properties; a completion is either a normal    *)
(* return or a throw.                                                      *)
(***************************************************************************)
EXTENDS Integers, Sequences, FiniteSets, TLC

VARIABLES
    r,      \* the Result the caller holds (undefined before construction)
    ctor,   \* how r was constructed: the producer and its argument list
    last,   \* the latest synchronous library call on r and its completion
    calls   \* the asynchronous unwrap calls, one record per call

vars == <<r, ctor, last, calls>>

----------------------------------------------------------------------------
(* Bounds of the input domains *)

MaxValues == 4
MaxMessages == 3
MaxCodes == 3
MaxDefaults == 2
MaxReasons == 2

----------------------------------------------------------------------------
(* JavaScript values *)

JSNull == [type |-> "null", repr |-> "null"]
JSUndefined == [type |-> "undefined", repr |-> "undefined"]
Num(n) == [type |-> "number", repr |-> n]
Str(s) == [type |-> "string", repr |-> s]
JSBool(b) == [type |-> "boolean", repr |-> IF b THEN "true" ELSE "false"]

ValuePool == <<Num("42"), JSNull, JSUndefined, Num("0"), Str(""), Str("string")>>
MessagePool == <<Str("error"), Str("NOT_FOUND"), Str(""), Str("Failed")>>
CodePool == <<Str("NOT_FOUND"), Str("FORBIDDEN"), Str(""), Str("error")>>
DefaultPool == <<Num("0"), Str("d"), JSNull, Num("42")>>
ReasonPool == <<[name |-> "TypeError", message |-> Str("fetch failed"), code |-> Str("ECONN")],
                Str("boom"),
                [name |-> "Error", message |-> Str("error")],
                JSUndefined>>

Prefix(pool, n) == {pool[i] : i \in 1..(IF n < Len(pool) THEN n ELSE Len(pool))}

Values == Prefix(ValuePool, MaxValues)
Messages == Prefix(MessagePool, MaxMessages)
Codes == Prefix(CodePool, MaxCodes)
Defaults == Prefix(DefaultPool, MaxDefaults)
Reasons == Prefix(ReasonPool, MaxReasons)

\* the argument lists a caller passes to Err: (m) or (m, c)
ErrArgs == {<<m>> : m \in Messages} \cup {<<m, c>> : m \in Messages, c \in Codes}

\* property read obj.key: undefined when obj has no such property
Get(obj, key) == IF key \in DOMAIN obj THEN obj[key] ELSE JSUndefined

\* ToBoolean(v): null, undefined, "", 0 and false are falsy
Truthy(v) ==
    /\ v.type \notin {"null", "undefined"}
    /\ ~(v.type = "string" /\ v.repr = "")
    /\ ~(v.type = "number" /\ v.repr = "0")
    /\ ~(v.type = "boolean" /\ v.repr = "false")

\* completions of a synchronous call
Return(v) == [kind |-> "return", value |-> v]
Throw(e) == [kind |-> "throw", error |-> e]

\* new Error(message): an object with a name and a message, nothing else
NewError(message) == [name |-> "Error", message |-> message]

----------------------------------------------------------------------------
(* Producers *)

Ok(value) == [ok |-> TRUE, value |-> value]

Err(error) == [ok |-> FALSE, error |-> error]

\* mutant: a second argument is stored verbatim as the code
ApplyErr_storesCode(args) ==
    IF Len(args) = 2
    THEN [ok |-> FALSE, error |-> args[1], code |-> args[2]]
    ELSE Err(args[1])

\* a call Err(...args): parameters are bound positionally and arguments
\* beyond the declared parameter list are discarded
ApplyErr(args) == Err(args[1])

----------------------------------------------------------------------------
(* Type guards and extractors *)

isOk(result) == result.ok

\* mutant: the failure guard tests the message instead of the tag
isErr_byMessage(result) == Truthy(Get(result, "error"))

isErr(result) == ~result.ok

\* mutant: the value is read without the guard
optionOk_unguarded(result) == Return(Get(result, "value"))

\* mutant: a falsy success value is replaced by null
optionOk_falsy(result) ==
    IF isOk(result) /\ Truthy(Get(result, "value"))
    THEN Return(Get(result, "value"))
    ELSE Return(JSNull)

optionOk(result) ==
    IF isOk(result) THEN Return(Get(result, "value")) ELSE Return(JSNull)

\* mutant: an empty message is taken for absent
optionErr_orNull(result) ==
    IF isErr(result) /\ Truthy(Get(result, "error"))
    THEN Return(Get(result, "error"))
    ELSE Return(JSNull)

optionErr(result) ==
    IF isErr(result) THEN Return(Get(result, "error")) ELSE Return(JSNull)

\* mutant: the raised failure copies the code of the Result
unwrap_withCode(result) ==
    IF isOk(result)
    THEN Return(Get(result, "value"))
    ELSE Throw([name |-> "Error",
                message |-> Get(result, "error"),
                code |-> Get(result, "code")])

unwrap(result) ==
    IF isOk(result)
    THEN Return(Get(result, "value"))
    ELSE Throw(NewError(Get(result, "error")))

\* mutant: a falsy success value falls through to the default
unwrapOrDefault_falsy(result, defaultValue) ==
    IF isOk(result) /\ Truthy(Get(result, "value"))
    THEN Return(Get(result, "value"))
    ELSE Return(defaultValue)

unwrapOrDefault(result, defaultValue) ==
    IF isOk(result) THEN Return(Get(result, "value")) ELSE Return(defaultValue)

\* mutant: optionOk and the defaulting unwraps memoise the answer on the
\* Result, which gives a failure Result a value property
AfterCall_memoises(op, result) ==
    IF /\ op \in {"optionOk", "unwrapOrDefault", "unwrapPromiseOrDefault"}
       /\ "value" \notin DOMAIN result
    THEN [k \in DOMAIN result \cup {"value"} |->
            IF k = "value" THEN JSNull ELSE result[k]]
    ELSE result

\* the Result object after the library function op has run on it: no
\* function body assigns to, or deletes, a property of its argument
AfterCall(op, result) == result

----------------------------------------------------------------------------
(* The synchronous caller *)

NoCtor == [fn |-> "none", args |-> <<>>]
NoCall == [op |-> "none", arg |-> JSUndefined, out |-> Return(JSUndefined)]
Called(op, arg, out) == [op |-> op, arg |-> arg, out |-> out]

CallOk(v) ==
    /\ r' = Ok(v)
    /\ ctor' = [fn |-> "Ok", args |-> <<v>>]
    /\ last' = NoCall
    /\ UNCHANGED calls

CallErr(args) ==
    /\ r' = ApplyErr(args)
    /\ ctor' = [fn |-> "Err", args |-> args]
    /\ last' = NoCall
    /\ UNCHANGED calls

CallIsOk ==
    /\ ctor.fn # "none"
    /\ last' = Called("isOk", JSUndefined, Return(JSBool(isOk(r))))
    /\ r' = AfterCall("isOk", r)
    /\ UNCHANGED <<ctor, calls>>

CallIsErr ==
    /\ ctor.fn # "none"
    /\ last' = Called("isErr", JSUndefined, Return(JSBool(isErr(r))))
    /\ r' = AfterCall("isErr", r)
    /\ UNCHANGED <<ctor, calls>>

CallOptionOk ==
    /\ ctor.fn # "none"
    /\ last' = Called("optionOk", JSUndefined, optionOk(r))
    /\ r' = AfterCall("optionOk", r)
    /\ UNCHANGED <<ctor, calls>>

CallOptionErr ==
    /\ ctor.fn # "none"
    /\ last' = Called("optionErr", JSUndefined, optionErr(r))
    /\ r' = AfterCall("optionErr", r)
    /\ UNCHANGED <<ctor, calls>>

CallUnwrap ==
    /\ ctor.fn # "none"
    /\ last' = Called("unwrap", JSUndefined, unwrap(r))
    /\ r' = AfterCall("unwrap", r)
    /\ UNCHANGED <<ctor, calls>>

CallUnwrapOrDefault(d) ==
    /\ ctor.fn # "none"
    /\ last' = Called("unwrapOrDefault", d, unwrapOrDefault(r, d))
    /\ r' = AfterCall("unwrapOrDefault", r)
    /\ UNCHANGED <<ctor, calls>>

\* the consumer reads result.error after narrowing with isErr
ReadError ==
    /\ ctor.fn # "none"
    /\ isErr(r)
    /\ last' = Called("read.error", JSUndefined, Return(Get(r, "error")))
    /\ UNCHANGED <<r, ctor, calls>>

\* the consumer reads result.code after narrowing with isErr
ReadCode ==
    /\ ctor.fn # "none"
    /\ isErr(r)
    /\ last' = Called("read.code", JSUndefined, Return(Get(r, "code")))
    /\ UNCHANGED <<r, ctor, calls>>

NextSync ==
    \/ \E v \in Values : CallOk(v)
    \/ \E args \in ErrArgs : CallErr(args)
    \/ CallIsOk
    \/ CallIsErr
    \/ CallOptionOk
    \/ CallOptionErr
    \/ CallUnwrap
    \/ \E d \in Defaults : CallUnwrapOrDefault(d)
    \/ ReadError
    \/ ReadCode

----------------------------------------------------------------------------
(* Promises and the asynchronous unwrap functions *)

Calls == {1, 2}
Forms == {"promise", "function"}

NoPromise == [state |-> "none", value |-> JSUndefined, ctor |-> NoCtor]
Pending == [state |-> "pending", value |-> JSUndefined, ctor |-> NoCtor]
Fulfilled(v, c) == [state |-> "fulfilled", value |-> v, ctor |-> c]
Rejected(e) == [state |-> "rejected", value |-> e, ctor |-> NoCtor]
Settled(p) == p.state \in {"fulfilled", "rejected"}

\* the argument fn of an asynchronous unwrap: a promise the caller already
\* holds, or a zero-argument function that has not produced its promise yet
Source(form) ==
    [form |-> form,
     invoked |-> 0,
     promise |-> IF form = "promise" THEN Pending ELSE NoPromise]

\* mutant: the function form is invoked a second time
AwaitOperand_twice(fn) ==
    IF fn.form = "function"
    THEN [fn EXCEPT !.invoked = @ + 2, !.promise = Pending]
    ELSE fn

\* typeof fn === "function" ? fn() : fn
AwaitOperand(fn) ==
    IF fn.form = "function"
    THEN [fn EXCEPT !.invoked = @ + 1, !.promise = Pending]
    ELSE fn

\* await p: the fulfilment value, or the rejection reason thrown at the await
Await(p) == IF p.state = "fulfilled" THEN Return(p.value) ELSE Throw(p.value)

\* the promise an async function returns, settled by its body's completion
AsyncResult(completion) ==
    IF completion.kind = "return"
    THEN Fulfilled(completion.value, NoCtor)
    ELSE Rejected(completion.error)

\* mutant: a failure Result is rejected as it is, not as an Error
unwrapPromise_rejectsResult(p) ==
    IF p.state = "rejected"
    THEN Rejected(p.value)
    ELSE IF isOk(p.value)
         THEN Fulfilled(Get(p.value, "value"), NoCtor)
         ELSE Rejected(p.value)

\* the body of unwrapPromise from its await on: p is the awaited promise
unwrapPromise(p) ==
    LET result == Await(p)
    IN  IF result.kind = "throw"
        THEN AsyncResult(result)
        ELSE AsyncResult(unwrap(result.value))

\* mutant: the body calls unwrap, so a failure Result rejects
unwrapPromiseOrDefault_unwraps(p, defaultValue) ==
    IF p.state = "rejected"
    THEN Rejected(p.value)
    ELSE AsyncResult(unwrap(p.value))

\* mutant: a rejection of the awaited promise is caught and defaulted
unwrapPromiseOrDefault_catches(p, defaultValue) ==
    IF p.state = "rejected"
    THEN Fulfilled(defaultValue, NoCtor)
    ELSE AsyncResult(unwrapOrDefault(p.value, defaultValue))

\* the body of unwrapPromiseOrDefault from its await on
unwrapPromiseOrDefault(p, defaultValue) ==
    LET result == Await(p)
    IN  IF result.kind = "throw"
        THEN AsyncResult(result)
        ELSE AsyncResult(unwrapOrDefault(result.value, defaultValue))

IdleCall(form) ==
    [pc |-> "idle",
     fn |-> "none",
     source |-> Source(form),
     defaultValue |-> JSUndefined,
     ret |-> NoPromise]

\* unwrapPromise(fn) is called: it runs up to its await and suspends
StartUnwrapPromise(i) ==
    /\ calls[i].pc = "idle"
    /\ calls' = [calls EXCEPT ![i] =
                    [@ EXCEPT !.pc = "awaiting",
                              !.fn = "unwrapPromise",
                              !.source = AwaitOperand(calls[i].source),
                              !.ret = Pending]]
    /\ UNCHANGED <<r, ctor, last>>

\* unwrapPromiseOrDefault(fn, d) is called: it runs up to its await
StartUnwrapPromiseOrDefault(i, d) ==
    /\ calls[i].pc = "idle"
    /\ calls' = [calls EXCEPT ![i] =
                    [@ EXCEPT !.pc = "awaiting",
                              !.fn = "unwrapPromiseOrDefault",
                              !.source = AwaitOperand(calls[i].source),
                              !.defaultValue = d,
                              !.ret = Pending]]
    /\ UNCHANGED <<r, ctor, last>>

\* the supplied computation resolves to Ok(v)
SettleOk(i, v) ==
    /\ calls[i].source.promise.state = "pending"
    /\ calls' = [calls EXCEPT ![i].source.promise =
                    Fulfilled(Ok(v), [fn |-> "Ok", args |-> <<v>>])]
    /\ UNCHANGED <<r, ctor, last>>

\* the supplied computation resolves to Err(...args)
SettleErr(i, args) ==
    /\ calls[i].source.promise.state = "pending"
    /\ calls' = [calls EXCEPT ![i].source.promise =
                    Fulfilled(ApplyErr(args), [fn |-> "Err", args |-> args])]
    /\ UNCHANGED <<r, ctor, last>>

\* the supplied computation rejects with reason e
SettleReject(i, e) ==
    /\ calls[i].source.promise.state = "pending"
    /\ calls' = [calls EXCEPT ![i].source.promise = Rejected(e)]
    /\ UNCHANGED <<r, ctor, last>>

\* mutant: the awaited Result is kept in one variable shared by all calls,
\* so a call resumes on whichever promise settled, not on its own
Awaited_shared(i) ==
    calls[CHOOSE j \in Calls : Settled(calls[j].source.promise)].source.promise

\* const result = await ...: the promise call i awaits, held in a local
Awaited(i) == calls[i].source.promise

\* the awaited promise after the function fn has run on its Result
AfterResume(fn, p) ==
    IF p.state = "fulfilled"
    THEN [p EXCEPT !.value = AfterCall(fn, p.value)]
    ELSE p

\* the await of unwrapPromise resumes once the awaited promise has settled
ResumeUnwrapPromise(i) ==
    /\ calls[i].pc = "awaiting"
    /\ calls[i].fn = "unwrapPromise"
    /\ Settled(calls[i].source.promise)
    /\ calls' = [calls EXCEPT ![i] =
                    [@ EXCEPT !.pc = "done",
                              !.source.promise =
                                  AfterResume("unwrapPromise",
                                              calls[i].source.promise),
                              !.ret = unwrapPromise(Awaited(i))]]
    /\ UNCHANGED <<r, ctor, last>>

\* the await of unwrapPromiseOrDefault resumes
ResumeUnwrapPromiseOrDefault(i) ==
    /\ calls[i].pc = "awaiting"
    /\ calls[i].fn = "unwrapPromiseOrDefault"
    /\ Settled(calls[i].source.promise)
    /\ calls' = [calls EXCEPT ![i] =
                    [@ EXCEPT !.pc = "done",
                              !.source.promise =
                                  AfterResume("unwrapPromiseOrDefault",
                                              calls[i].source.promise),
                              !.ret = unwrapPromiseOrDefault(
                                         Awaited(i),
                                         calls[i].defaultValue)]]
    /\ UNCHANGED <<r, ctor, last>>

NextAsync ==
    \/ \E i \in Calls : StartUnwrapPromise(i)
    \/ \E i \in Calls, d \in Defaults : StartUnwrapPromiseOrDefault(i, d)
    \/ \E i \in Calls, v \in Values : SettleOk(i, v)
    \/ \E i \in Calls, args \in ErrArgs : SettleErr(i, args)
    \/ \E i \in Calls, e \in Reasons : SettleReject(i, e)
    \/ \E i \in Calls : ResumeUnwrapPromise(i)
    \/ \E i \in Calls : ResumeUnwrapPromiseOrDefault(i)

----------------------------------------------------------------------------
(* Specifications *)

\* the synchronous functions applied to one Result
InitSync ==
    /\ r = JSUndefined
    /\ ctor = NoCtor
    /\ last = NoCall
    /\ calls = [i \in Calls |-> IdleCall("promise")]

SpecSync == InitSync /\ [][NextSync]_vars

\* the asynchronous functions, two calls in flight, each source in either form
InitAsync ==
    /\ r = JSUndefined
    /\ ctor = NoCtor
    /\ last = NoCall
    /\ calls \in [Calls -> {IdleCall(form) : form \in Forms}]

SpecAsync == InitAsync /\ [][NextAsync]_vars

\* the synchronous functions on one Result and one asynchronous call
FrameCalls == {1}

InitFrame ==
    /\ r = JSUndefined
    /\ ctor = NoCtor
    /\ last = NoCall
    /\ calls \in {c \in [Calls -> {IdleCall(form) : form \in Forms}] :
                    \A i \in Calls \ FrameCalls : c[i] = IdleCall("promise")}

NextFrame ==
    \/ NextSync
    \/ \E i \in FrameCalls : StartUnwrapPromise(i)
    \/ \E i \in FrameCalls, d \in Defaults : StartUnwrapPromiseOrDefault(i, d)
    \/ \E i \in FrameCalls, v \in Values : SettleOk(i, v)
    \/ \E i \in FrameCalls, args \in ErrArgs : SettleErr(i, args)
    \/ \E i \in FrameCalls, e \in Reasons : SettleReject(i, e)
    \/ \E i \in FrameCalls : ResumeUnwrapPromise(i)
    \/ \E i \in FrameCalls : ResumeUnwrapPromiseOrDefault(i)

SpecFrame == InitFrame /\ [][NextFrame]_vars

Init == InitAsync

Next == NextSync \/ NextAsync

Spec == Init /\ [][Next]_vars

----------------------------------------------------------------------------
(* Properties *)

\* the second argument of an Err call, undefined when omitted
CodeArg(c) == IF Len(c.args) = 2 THEN c.args[2] ELSE JSUndefined

\* C1: for every Result built by Ok(v), Err(m) or Err(m, c), isOk is true
\* exactly when it was built by Ok, isErr exactly when it was built by Err,
\* and the two guards never agree.
C1_GuardsComplement ==
    ctor.fn # "none" =>
        /\ isOk(r) = (ctor.fn = "Ok")
        /\ isErr(r) = (ctor.fn = "Err")
        /\ isOk(r) # isErr(r)
        /\ last.op = "isOk" => last.out = Return(JSBool(ctor.fn = "Ok"))
        /\ last.op = "isErr" => last.out = Return(JSBool(ctor.fn = "Err"))

\* isErr answered true on Err("", c): the message is empty and a code given
C1_Witness ==
    /\ ctor.fn = "Err"
    /\ Len(ctor.args) = 2
    /\ ctor.args[1] = Str("")
    /\ last.op = "isErr"
    /\ last.out = Return(JSBool(TRUE))

\* C2: unwrap returns v on Ok(v); on Err(m) or Err(m, c) it throws a failure
\* whose message is m and which has no code property.
C2_Unwrap ==
    last.op = "unwrap" =>
        /\ ctor.fn = "Ok" => last.out = Return(ctor.args[1])
        /\ ctor.fn = "Err" =>
            /\ last.out.kind = "throw"
            /\ Get(last.out.error, "message") = ctor.args[1]
            /\ "code" \notin DOMAIN last.out.error

\* unwrap threw on a Result built by Err(m, c)
C2_Witness ==
    /\ ctor.fn = "Err"
    /\ Len(ctor.args) = 2
    /\ last.op = "unwrap"
    /\ last.out.kind = "throw"

\* C3: Err(m, c) yields a failure-tagged Result whose error reads back as m
\* and whose code reads back as c; Err(m) yields error m and an undefined code.
C3_ErrRoundTrip ==
    ctor.fn = "Err" =>
        /\ isErr(r)
        /\ Get(r, "error") = ctor.args[1]
        /\ Get(r, "code") = CodeArg(ctor)

\* C4: unwrapOrDefault never throws; it returns v on Ok(v), falsy v included,
\* and the default d on every failure Result.
C4_UnwrapOrDefault ==
    last.op = "unwrapOrDefault" =>
        last.out = Return(IF ctor.fn = "Ok" THEN ctor.args[1] ELSE last.arg)

\* unwrapOrDefault returned the falsy success value, not the truthy default
C4_Witness ==
    /\ ctor.fn = "Ok"
    /\ ~Truthy(ctor.args[1])
    /\ last.op = "unwrapOrDefault"
    /\ Truthy(last.arg)
    /\ last.out = Return(ctor.args[1])

\* C9: optionOk never throws; it returns v on Ok(v) and null on every failure
\* Result.
C9_OptionOk ==
    last.op = "optionOk" =>
        last.out = Return(IF ctor.fn = "Ok" THEN ctor.args[1] ELSE JSNull)

\* optionOk returned null on a Result built by Err(m, c)
C9_Witness ==
    /\ ctor.fn = "Err"
    /\ Len(ctor.args) = 2
    /\ last.op = "optionOk"
    /\ last.out = Return(JSNull)

\* C10: optionErr never throws; it returns the message m, never the code, on
\* Err(m) or Err(m, c), and null on Ok(v).
C10_OptionErr ==
    last.op = "optionErr" =>
        /\ last.out = Return(IF ctor.fn = "Err" THEN ctor.args[1] ELSE JSNull)
        /\ (ctor.fn = "Err" /\ CodeArg(ctor) # ctor.args[1]) =>
                last.out # Return(CodeArg(ctor))

\* optionErr returned the empty message of Err("", c), c not empty
C10_Witness ==
    /\ ctor.fn = "Err"
    /\ Len(ctor.args) = 2
    /\ ctor.args[1] = Str("")
    /\ ctor.args[2] # ctor.args[1]
    /\ last.op = "optionErr"
    /\ last.out = Return(Str(""))

DoneWith(i, fn) == calls[i].pc = "done" /\ calls[i].fn = fn

\* C5: unwrapPromise resolves to v when the computation resolves to Ok(v) and
\* rejects with a failure of message m and no code when it resolves to Err(m)
\* or Err(m, c); the outcome is the same for a promise and for a function
\* returning an equivalent promise.
C5_UnwrapPromise ==
    /\ \A i \in Calls :
        (DoneWith(i, "unwrapPromise")
            /\ calls[i].source.promise.state = "fulfilled") =>
          LET c == calls[i].source.promise.ctor
              ret == calls[i].ret
          IN  /\ c.fn = "Ok" => ret = Fulfilled(c.args[1], NoCtor)
              /\ c.fn = "Err" =>
                    /\ ret.state = "rejected"
                    /\ Get(ret.value, "message") = c.args[1]
                    /\ "code" \notin DOMAIN ret.value
    /\ \A i, j \in Calls :
        (/\ DoneWith(i, "unwrapPromise")
         /\ DoneWith(j, "unwrapPromise")
         /\ calls[i].source.promise = calls[j].source.promise) =>
            calls[i].ret = calls[j].ret

\* a function and a promise, both resolved to Err(m, c), both unwrapped
C5_Witness ==
    /\ DoneWith(1, "unwrapPromise")
    /\ DoneWith(2, "unwrapPromise")
    /\ calls[1].source.form = "function"
    /\ calls[2].source.form = "promise"
    /\ calls[1].source.promise = calls[2].source.promise
    /\ calls[1].source.promise.ctor.fn = "Err"
    /\ Len(calls[1].source.promise.ctor.args) = 2
    /\ calls[1].ret.state = "rejected"

\* C6: unwrapPromiseOrDefault resolves to v when the computation resolves to
\* Ok(v) and resolves to the default d when it resolves to a failure Result,
\* for a promise and for a function alike.
C6_UnwrapPromiseOrDefault ==
    \A i \in Calls :
        (DoneWith(i, "unwrapPromiseOrDefault")
            /\ calls[i].source.promise.state = "fulfilled") =>
          LET c == calls[i].source.promise.ctor
          IN  calls[i].ret =
                Fulfilled(IF c.fn = "Ok" THEN c.args[1]
                                         ELSE calls[i].defaultValue,
                          NoCtor)

\* a function whose promise resolved to Err(m, c) was defaulted
C6_Witness ==
    \E i \in Calls :
        /\ DoneWith(i, "unwrapPromiseOrDefault")
        /\ calls[i].source.form = "function"
        /\ calls[i].source.promise.ctor.fn = "Err"
        /\ Len(calls[i].source.promise.ctor.args) = 2
        /\ calls[i].ret = Fulfilled(calls[i].defaultValue, NoCtor)

\* C7: when the supplied computation rejects with reason e, unwrapPromise and
\* unwrapPromiseOrDefault both reject with e itself.
C7_RejectionPassthrough ==
    \A i \in Calls :
        (calls[i].pc = "done" /\ calls[i].source.promise.state = "rejected") =>
            calls[i].ret = Rejected(calls[i].source.promise.value)

\* both functions finished on sources that rejected, in both forms
C7_Witness ==
    /\ DoneWith(1, "unwrapPromiseOrDefault")
    /\ DoneWith(2, "unwrapPromise")
    /\ calls[1].source.form = "function"
    /\ calls[2].source.form = "promise"
    /\ calls[1].source.promise.state = "rejected"
    /\ calls[2].source.promise.state = "rejected"
    /\ calls[1].ret.state = "rejected"
    /\ calls[2].ret.state = "rejected"

\* C8: a function passed to unwrapPromise or unwrapPromiseOrDefault has not
\* been invoked before the call, has been invoked exactly once when the call
\* is suspended at its await, and still exactly once when the call is done.
C8_InvokedOnce ==
    \A i \in Calls :
        calls[i].source.form = "function" =>
            /\ calls[i].pc = "idle" => calls[i].source.invoked = 0
            /\ calls[i].pc = "awaiting" =>
                    /\ calls[i].source.invoked = 1
                    /\ calls[i].source.promise.state # "none"
            /\ calls[i].pc = "done" => calls[i].source.invoked = 1

\* one function-form call is done, the other suspended on a pending promise
C8_Witness ==
    /\ calls[1].source.form = "function"
    /\ calls[2].source.form = "function"
    /\ calls[1].pc = "done"
    /\ calls[1].source.invoked = 1
    /\ calls[2].pc = "awaiting"
    /\ calls[2].source.promise.state = "pending"
    /\ calls[2].source.invoked = 1

\* C11: every failure-tagged Result built by Err(m) or Err(m, c) has an error
\* field that is a string, and a code field that is absent (undefined) or a
\* non-empty string.
C11_ErrFields ==
    ctor.fn = "Err" =>
        /\ isErr(r)
        /\ Get(r, "error").type = "string"
        /\ \/ Get(r, "code") = JSUndefined
           \/ Get(r, "code").type = "string" /\ Get(r, "code").repr # ""
        /\ last.op = "read.code" =>
            \/ last.out = Return(JSUndefined)
            \/ /\ last.out.kind = "return"
               /\ last.out.value.type = "string"
               /\ last.out.value.repr # ""

\* the code of a Result built by Err(m, "") was read and found undefined
C11_Witness ==
    /\ ctor.fn = "Err"
    /\ Len(ctor.args) = 2
    /\ ctor.args[2] = Str("")
    /\ last.op = "read.code"
    /\ last.out = Return(JSUndefined)

\* the Result a producer call builds
Built(c) == IF c.fn = "Ok" THEN Ok(c.args[1]) ELSE ApplyErr(c.args)

\* the completion of the synchronous call op(result, arg)
Answer(op, result, arg) ==
    CASE op = "isOk" -> Return(JSBool(isOk(result)))
      [] op = "isErr" -> Return(JSBool(isErr(result)))
      [] op = "optionOk" -> optionOk(result)
      [] op = "optionErr" -> optionErr(result)
      [] op = "unwrap" -> unwrap(result)
      [] op = "unwrapOrDefault" -> unwrapOrDefault(result, arg)
      [] op = "read.error" -> Return(Get(result, "error"))
      [] op = "read.code" -> Return(Get(result, "code"))

\* the promise the asynchronous call fn returns on a promise of result
AsyncAnswer(fn, result, d) ==
    IF fn = "unwrapPromise"
    THEN unwrapPromise(Fulfilled(result, NoCtor))
    ELSE unwrapPromiseOrDefault(Fulfilled(result, NoCtor), d)

\* C12: no library function changes a Result. After any sequence of calls,
\* throwing and rejecting ones included, the Result is the one its producer
\* built, and every answer is the answer the as-built Result gives, so a
\* repeated inspection answers the same.
C12_ResultImmutable ==
    /\ ctor.fn # "none" => r = Built(ctor)
    /\ last.op # "none" => last.out = Answer(last.op, Built(ctor), last.arg)
    /\ \A i \in Calls :
        LET p == calls[i].source.promise
        IN  p.state = "fulfilled" =>
                /\ p.value = Built(p.ctor)
                /\ calls[i].pc = "done" =>
                    calls[i].ret = AsyncAnswer(calls[i].fn, Built(p.ctor),
                                               calls[i].defaultValue)

\* unwrap has thrown on a failure Result and an asynchronous call on another
\* failure Result is done; both Results are as built
C12_Witness ==
    /\ ctor.fn = "Err"
    /\ last.op = "unwrap"
    /\ last.out.kind = "throw"
    /\ r = Built(ctor)
    /\ calls[1].pc = "done"
    /\ calls[1].source.promise.state = "fulfilled"
    /\ calls[1].source.promise.ctor.fn = "Err"
    /\ calls[1].source.promise.value = Built(calls[1].source.promise.ctor)

\* the outcome of an asynchronous call, from its own function, the settlement
\* of its own source and its own default
OwnOutcome(call) ==
    LET p == call.source.promise
    IN  IF p.state = "rejected" THEN Rejected(p.value)
        ELSE IF p.ctor.fn = "Ok" THEN Fulfilled(p.ctor.args[1], NoCtor)
        ELSE IF call.fn = "unwrapPromise"
             THEN Rejected(NewError(p.ctor.args[1]))
             ELSE Fulfilled(call.defaultValue, NoCtor)

\* C13: two concurrent asynchronous unwrap calls on independent sources do
\* not affect each other. Under every interleaving and every settling order
\* the outcome of a finished call is a function of its own source, function
\* and default, and a step of one call leaves the other call as it was.
C13_CallsIndependent ==
    /\ [](\A i \in Calls :
            calls[i].pc = "done" => calls[i].ret = OwnOutcome(calls[i]))
    /\ [][\A i, j \in Calls :
            (i # j /\ calls'[i] # calls[i]) => calls'[j] = calls[j]]_vars

\* the second call is done, resolved from its own Ok source, while the first
\* is still suspended although its source has already settled to a failure
C13_Witness ==
    /\ calls[1].pc = "awaiting"
    /\ calls[1].source.promise.state = "fulfilled"
    /\ calls[1].source.promise.ctor.fn = "Err"
    /\ calls[2].pc = "done"
    /\ calls[2].source.promise.state = "fulfilled"
    /\ calls[2].source.promise.ctor.fn = "Ok"
    /\ calls[2].ret = Fulfilled(calls[2].source.promise.ctor.args[1], NoCtor)

\* the opposite completion order: the first call is done, the second suspended
C13_FirstCompletesFirst ==
    /\ calls[2].pc = "awaiting"
    /\ Settled(calls[2].source.promise)
    /\ calls[1].pc = "done"

\* C14 as stated: for every Result that Ok or Err can build, Ok(null) and
\* Ok(undefined) included, optionOk returns null if and only if isErr is true.
C14_NullIffErr ==
    last.op = "optionOk" => ((last.out = Return(JSNull)) <=> isErr(r))

\* C14 amended: optionOk returns null if and only if isErr is true or the
\* Result is Ok(null); in particular it returns null on every failure Result,
\* and undefined, not null, on Ok(undefined).
C14_NullIffErrOrOkNull ==
    last.op = "optionOk" =>
        /\ (last.out = Return(JSNull)) <=>
                (isErr(r) \/ (ctor.fn = "Ok" /\ ctor.args[1] = JSNull))
        /\ ctor = [fn |-> "Ok", args |-> <<JSUndefined>>] =>
                last.out = Return(JSUndefined)

\* optionOk returned null on Ok(null), a Result for which isErr is false
C14_Witness ==
    /\ ctor = [fn |-> "Ok", args |-> <<JSNull>>]
    /\ last.op = "optionOk"
    /\ last.out = Return(JSNull)
    /\ ~isErr(r)

====
